---- MODULE Spec2Model ----
(***************************************************************************)
(* The Reef interpreter pipeline: lex::Scanner (reef-core/src/lex/mod.rs), *)
(* parse::Parser (reef-core/src/parse.rs) and the tree-walking Evaluator   *)
(* (src/evaluator/evaluator.rs, src/evaluator/types.rs), driven by `run`   *)
(* in src/main.rs.                                                         *)
(*                                                                         *)
(* Text is a sequence of characters (one-character strings).  Token text,  *)
(* identifiers and string values are character sequences too, so that the  *)
(* scanner's slices and the number conversion work on characters.          *)
(* f64 values are modelled on the integers: the source alphabet of the     *)
(* model has no '.', and no '/' so every reachable number is an integer    *)
(* that f64 represents exactly.                                            *)
(***************************************************************************)
EXTENDS Integers, Sequences, FiniteSets, TLC

VARIABLES
    scanner,      \* lex::Scanner { text, tokens, current, line }
    parser,       \* parse::Parser { program, tokens, current }
    parse_result, \* what parse_all returned to `run`
    evaluator,    \* Evaluator { program, scope, ptr }
    output,       \* the lines written to stdout by the evaluator
    executed,     \* history: the evaluate_statement calls made so far
    pc            \* where `run` is: scan, parse, eval, done, panic

vars == <<scanner, parser, parse_result, evaluator, output, executed, pc>>

----------------------------------------------------------------------------
(* Bounds of the model *)

MaxTextLen == 3
MaxTokens == 5
MaxStmts == 2
MaxExecuted == 24
MaxCalls == 2

----------------------------------------------------------------------------
(* Characters *)

\* U+00A0 NO-BREAK SPACE: char::is_whitespace is true of it and UTF-8 encodes
\* it in two bytes.
NBSP == "NBSP"

NoChar == "None"

LowerChars ==
    {"a","b","c","d","e","f","g","h","i","j","k","l","m",
     "n","o","p","q","r","s","t","u","v","w","x","y","z"}
UpperChars ==
    {"A","B","C","D","E","F","G","H","I","J","K","L","M",
     "N","O","P","Q","R","S","T","U","V","W","X","Y","Z"}
DigitChars == {"0","1","2","3","4","5","6","7","8","9"}
DelimiterChars == {".", ",", ";", ":", "{", "}", "(", ")"}
WhitespaceChars == {" ", "\t", "\r", "\n", NBSP}
OtherChars == {"_", "\"", "-", "+", "*", "/", "<", ">", "=", "#", "%"}

Chars ==
    LowerChars \cup UpperChars \cup DigitChars \cup DelimiterChars
        \cup WhitespaceChars \cup OtherChars

Utf8Len(c) == IF c = NBSP THEN 2 ELSE 1

\* The number of bytes of the first k characters of s: one for each, and one
\* more for each two-byte character.
ByteOffset(s, k) == k + Cardinality({i \in 1..k : Utf8Len(s[i]) = 2})

\* str::len(): the length in bytes
ByteLen(s) == ByteOffset(s, Len(s))

\* The numbers of leading characters that end at byte b: one when b is a
\* character boundary, none otherwise.
CharsBefore(s, b) ==
    LET wide == ByteLen(s) - Len(s)
        low  == IF b - wide < 0 THEN 0 ELSE b - wide
        high == IF b < Len(s) THEN b ELSE Len(s)
    IN  {k \in low..high : ByteOffset(s, k) = b}

\* &text[a..b]: a byte range; panics off a character boundary or out of range.
Slice(s, a, b) ==
    IF a > b \/ b > ByteLen(s) \/ CharsBefore(s, a) = {} \/ CharsBefore(s, b) = {}
    THEN [ok |-> FALSE, v |-> <<>>]
    ELSE LET first == CHOOSE k \in CharsBefore(s, a) : TRUE
             last  == CHOOSE k \in CharsBefore(s, b) : TRUE
         IN  [ok |-> TRUE, v |-> SubSeq(s, first + 1, last)]

----------------------------------------------------------------------------
(* Tokens *)

Tok(t, v) == [type |-> t, v |-> v]
NoToken == Tok("None", <<>>)
EndOfFile == Tok("EndOfFile", <<>>)
Equals == Tok("Equals", <<>>)
Keyword(v) == Tok("Keyword", v)
Identifier(v) == Tok("Identifier", v)
Number(v) == Tok("Number", v)
String(v) == Tok("String", v)
Delimiter(c) == Tok("Delimiter", <<c>>)
BinaryOperator(c) == Tok("BinaryOperator", <<c>>)
ComparisonOperator(c) == Tok("ComparisonOperator", <<c>>)

keywords ==
    { <<"c","o","n","t","i","n","u","e">>, <<"s","t","r","u","c","t">>,
      <<"e","l","s","e","i","f">>, <<"r","e","t","u","r","n">>,
      <<"t","y","p","e","o","f">>, <<"f","a","l","s","e">>,
      <<"b","r","e","a","k">>, <<"t","r","u","e">>, <<"e","l","s","e">>,
      <<"t","h","e","n">>, <<"t","y","p","e">>, <<"f","o","r">>,
      <<"f","u","n">>, <<"n","i","l">>, <<"n","o","t">>, <<"a","n","d">>,
      <<"v","a","r">>, <<"l","o","g">>, <<"d","o">>, <<"i","f">>,
      <<"o","r">> }

----------------------------------------------------------------------------
(* lex::Scanner *)

NewScanner(text) == [text |-> text, tokens |-> <<>>, current |-> 0, line |-> 1]

is_keyword(ident) == ident \in keywords

\* text.chars().nth(current): indexed by character, not by byte
get_current_char(sc) ==
    IF sc.current < Len(sc.text) THEN sc.text[sc.current + 1] ELSE NoChar

scan_advance(sc) == [sc EXCEPT !.current = @ + 1]

push_token(sc, t) == [sc EXCEPT !.tokens = Append(@, t)]

ScanOk(sc) == [sc |-> sc, panic |-> FALSE]
ScanPanic(sc) == [sc |-> sc, panic |-> TRUE]

\* `while let Some(c) = self.get_current_char()` advancing while c is in class
RECURSIVE RunEnd(_, _)
RunEnd(sc, class) ==
    IF get_current_char(sc) # NoChar /\ get_current_char(sc) \in class
    THEN RunEnd(scan_advance(sc), class)
    ELSE sc

IdentChars == LowerChars \cup UpperChars \cup DigitChars \cup {"_"}
NumberChars == DigitChars \cup {"_", "."}
CommentChars == Chars \ {"\n"}
StringChars == Chars \ {"\""}

scan_ident(sc) ==
    LET start == sc.current
        end   == RunEnd(sc, IdentChars)
        sym   == Slice(sc.text, start, end.current)
    IN  IF ~sym.ok THEN ScanPanic(end)
        ELSE IF is_keyword(sym.v) THEN ScanOk(push_token(end, Keyword(sym.v)))
        ELSE ScanOk(push_token(end, Identifier(sym.v)))

scan_number(sc) ==
    LET start == sc.current
        end   == RunEnd(sc, NumberChars)
        sym   == Slice(sc.text, start, end.current)
    IN  IF ~sym.ok THEN ScanPanic(end)
        ELSE ScanOk(push_token(end, Number(sym.v)))

\* scan_comment that takes the newline with the comment
scan_comment_through_newline(sc) ==
    ScanOk(scan_advance(RunEnd(sc, CommentChars)))

\* The comment's text is dropped: no token is pushed.
scan_comment(sc) == ScanOk(RunEnd(sc, CommentChars))

scan_string(sc) ==
    LET opened == scan_advance(sc)
        start  == opened.current
        body   == RunEnd(opened, StringChars)
        closed == scan_advance(body)
        sym    == Slice(sc.text, start, closed.current - 1)
    IN  IF ~sym.ok THEN ScanPanic(closed)
        ELSE ScanOk(push_token(closed, String(sym.v)))

handle_hyphen(sc) ==
    LET s1 == scan_advance(sc)
    IN  IF get_current_char(s1) = "-" THEN scan_comment(s1)
        ELSE ScanOk(push_token(s1, BinaryOperator("-")))

next_token(sc) ==
    LET c == get_current_char(sc)
    IN  CASE c = NoChar -> ScanOk(push_token(sc, EndOfFile))
          [] c = "\n" -> ScanOk([sc EXCEPT !.line = @ + 1, !.current = @ + 1])
          [] c \in LowerChars \cup UpperChars \cup {"_"} -> scan_ident(sc)
          [] c \in DigitChars -> scan_number(sc)
          [] c = "\"" -> scan_string(sc)
          [] c = "-" -> handle_hyphen(sc)
          [] c \in {"+", "*", "/"} ->
                ScanOk(scan_advance(push_token(sc, BinaryOperator(c))))
          [] c \in {"<", ">"} ->
                ScanOk(scan_advance(push_token(sc, ComparisonOperator(c))))
          [] c = "=" -> ScanOk(scan_advance(push_token(sc, Equals)))
          [] c \in DelimiterChars ->
                ScanOk(scan_advance(push_token(sc, Delimiter(c))))
          [] c \in WhitespaceChars \ {"\n"} -> ScanOk(scan_advance(sc))
          [] OTHER -> ScanPanic(sc)

\* `while self.current < self.text.len()`: len() counts bytes
scan_loop_cond(sc) == sc.current < ByteLen(sc.text)

\* The whole of scan().  A pass through next_token's None arm changes neither
\* the cursor nor the loop condition, so the loop never ends: "hang".
RECURSIVE scan(_)
scan(sc) ==
    IF ~scan_loop_cond(sc) THEN [sc |-> sc, outcome |-> "ok"]
    ELSE IF get_current_char(sc) = NoChar THEN [sc |-> sc, outcome |-> "hang"]
    ELSE LET r == next_token(sc)
         IN  IF r.panic THEN [sc |-> r.sc, outcome |-> "panic"]
             ELSE scan(r.sc)

----------------------------------------------------------------------------
(* AST: reef-syntax ast.rs *)

NumberLiteral(n) == [e |-> "NumberLiteral", n |-> n]
StringLiteral(s) == [e |-> "StringLiteral", s |-> s]
IdentifierExpr(name) == [e |-> "Identifier", name |-> name]
BooleanExpr(b) == [e |-> "Boolean", b |-> b]
NilLiteral == [e |-> "NilLiteral"]
GroupExpression(inner) == [e |-> "GroupExpression", inner |-> inner]
UnaryExpression(inner) == [e |-> "UnaryExpression", operation |-> "Minus", inner |-> inner]
BinaryExpression(l, op, r) ==
    [e |-> "BinaryExpression", left_side |-> l, operator |-> op, right_side |-> r]
ComparisonExpression(l, op, r) ==
    [e |-> "ComparisonExpression", lhs |-> l, operator |-> op, rhs |-> r]

EmptyStatement == [s |-> "EmptyStatement"]
BlockStatement(statements) == [s |-> "BlockStatement", statements |-> statements]
ExpressionStatement(expr) == [s |-> "ExpressionStatement", expr |-> expr]
LogStatement(args) == [s |-> "LogStatement", args |-> args]
IfStatement(condition, body) ==
    [s |-> "IfStatement", condition |-> condition, body |-> body]
VariableDeclaration(name, value) ==
    [s |-> "VariableDeclaration", name |-> name, value |-> value]
VariableReassignment(name, value) ==
    [s |-> "VariableReassignment", name |-> name, value |-> value]

----------------------------------------------------------------------------
(* parse::Parser *)

NewParser(tokens) == [program |-> <<>>, tokens |-> tokens, current |-> 0]

SyntaxError(position) == [error |-> "SyntaxError", position |-> position]
UnknownToken(position) == [error |-> "UnknownToken", position |-> position]
CurrentIndexOutOfBounds(position) ==
    [error |-> "CurrentIndexOutOfBounds", position |-> position]

\* What a parsing method hands back: Ok(value), Err(error) or a panic, each
\* with the parser as the method left it.
POk(p, val) == [kind |-> "Ok", p |-> p, val |-> val]
PErr(p, err) == [kind |-> "Err", p |-> p, err |-> err]
PPanic(p) == [kind |-> "Panic", p |-> p]

get_current_token(p) ==
    IF p.current >= Len(p.tokens) THEN NoToken ELSE p.tokens[p.current + 1]

lookahead(p, distance) ==
    IF p.current + distance >= Len(p.tokens) THEN NoToken
    ELSE p.tokens[p.current + distance + 1]

advance(p) == [p EXCEPT !.current = @ + 1]

\* add_statement putting the node in front of the program
add_statement_in_front(p, node) == [p EXCEPT !.program = <<node>> \o @]

add_statement(p, node) == [p EXCEPT !.program = Append(@, node)]

\* mem::discriminant(&expected) is that of Identifier, BinaryOperator or
\* ComparisonOperator
discriminant_accepted(expected) ==
    expected.type \in {"Identifier", "BinaryOperator", "ComparisonOperator"}

\* The error built when the token is None is dropped (no `return`), so the
\* comparison below decides alone; Ok(token.unwrap()) panics on None, and so
\* does the slice &self.tokens[0..self.current] of the Err arm once the cursor
\* is past the end.
expect(p, expected) ==
    LET p1    == advance(p)
        token == get_current_token(p1)
    IN  IF (token # NoToken /\ token = expected) \/ discriminant_accepted(expected)
        THEN IF token = NoToken THEN PPanic(p1) ELSE POk(p1, token)
        ELSE IF p1.current > Len(p1.tokens) THEN PPanic(p1)
        ELSE PErr(p1, SyntaxError(p1.current))

DigitValue(c) == CHOOSE d \in 0..9 : ToString(d) = c

RECURSIVE DecimalValue(_)
DecimalValue(digits) ==
    IF digits = <<>> THEN 0
    ELSE DecimalValue(SubSeq(digits, 1, Len(digits) - 1)) * 10
            + DigitValue(digits[Len(digits)])

\* n.parse::<f64>() on the texts the model's alphabet produces: an optional
\* sign, then digits; an underscore or an empty digit run is an Err.
ParseF64(n) ==
    LET signed == n # <<>> /\ n[1] \in {"-", "+"}
        digits == IF signed THEN Tail(n) ELSE n
    IN  IF digits = <<>> \/ \E i \in 1..Len(digits) : digits[i] \notin DigitChars
        THEN [ok |-> FALSE, v |-> 0]
        ELSE [ok |-> TRUE,
              v |-> IF signed /\ n[1] = "-" THEN 0 - DecimalValue(digits)
                    ELSE DecimalValue(digits)]

\* Panics when the text does not parse; the callers test `ok` first.
create_number_literal(n) == [ok |-> ParseF64(n).ok, val |-> NumberLiteral(ParseF64(n).v)]

create_string_literal(s) == StringLiteral(s)

KwVar == Keyword(<<"v","a","r">>)
KwLog == Keyword(<<"l","o","g">>)
KwIf == Keyword(<<"i","f">>)
KwThen == Keyword(<<"t","h","e","n">>)
KwTrue == Keyword(<<"t","r","u","e">>)
KwFalse == Keyword(<<"f","a","l","s","e">>)
KwNil == Keyword(<<"n","i","l">>)

BinaryExprOperatorOf(c) ==
    CASE c = "+" -> "Plus"
      [] c = "-" -> "Minus"
      [] c = "*" -> "Multiply"
      [] c = "/" -> "Divide"
      [] c = "%" -> "Modulus"
      [] OTHER -> "None"

\* The scanner's ComparisonOperator('<' | '>') as the enum of common.rs
ComparisonOperatorOf(c) == IF c = "<" THEN "LessThan" ELSE "GreaterThan"

\* The `?` operator: an Err (or a panic) of `r` is the method's own result,
\* otherwise the method goes on with what `r` holds.
Try(r, rest(_)) == IF r.kind # "Ok" THEN r ELSE rest(r)

\* `let lit = create_number_literal(n)` as the final value of a method
number_literal_at(p, n) ==
    IF create_number_literal(n).ok THEN POk(p, create_number_literal(n).val)
    ELSE PPanic(p)

RECURSIVE expression(_), group_expression(_), operand(_),
          binary_expression(_), comparison_expression(_)

\* The left-hand side of a binary or comparison expression (the same match in
\* both methods).
operand(p) ==
    LET token == get_current_token(p)
    IN  CASE token = KwTrue -> POk(p, BooleanExpr("True"))
          [] token = KwFalse -> POk(p, BooleanExpr("False"))
          [] token = Delimiter("(") -> group_expression(p)
          [] token.type = "String" -> POk(p, create_string_literal(token.v))
          [] token = BinaryOperator("-") ->
                IF get_current_token(advance(p)).type = "Number"
                THEN number_literal_at(advance(p),
                         <<"-">> \o get_current_token(advance(p)).v)
                ELSE PErr(advance(p), SyntaxError(p.current + 1))
          [] token.type = "Number" -> number_literal_at(p, token.v)
          [] token.type = "Identifier" -> POk(p, IdentifierExpr(token.v))
          [] OTHER -> POk(p, NilLiteral)

\* binary_expression whose right-hand side is one operand, not an expression
binary_expression_single_operand(p) ==
    Try(operand(p), LAMBDA lhs :
    Try(expect(lhs.p, BinaryOperator(" ")), LAMBDA op :
        IF op.val.type # "BinaryOperator"
        THEN PErr(op.p, SyntaxError(op.p.current))
        ELSE IF BinaryExprOperatorOf(op.val.v[1]) = "None"
        THEN PErr(op.p, UnknownToken(op.p.current))
        ELSE Try(operand(advance(op.p)), LAMBDA rhs :
                 POk(rhs.p, BinaryExpression(lhs.val,
                                BinaryExprOperatorOf(op.val.v[1]), rhs.val)))))

binary_expression(p) ==
    Try(operand(p), LAMBDA lhs :
    Try(expect(lhs.p, BinaryOperator(" ")), LAMBDA op :
        IF op.val.type # "BinaryOperator"
        THEN PErr(op.p, SyntaxError(op.p.current))
        ELSE IF BinaryExprOperatorOf(op.val.v[1]) = "None"
        THEN PErr(op.p, UnknownToken(op.p.current))
        ELSE Try(expression(advance(op.p)), LAMBDA rhs :
                 POk(rhs.p, BinaryExpression(lhs.val,
                                BinaryExprOperatorOf(op.val.v[1]), rhs.val)))))

comparison_expression(p) ==
    Try(operand(p), LAMBDA lhs :
    Try(expect(lhs.p, ComparisonOperator("o")), LAMBDA op :
        IF op.val.type # "ComparisonOperator"
        THEN PErr(op.p, SyntaxError(op.p.current))
        ELSE Try(expression(advance(op.p)), LAMBDA rhs :
                 POk(rhs.p, ComparisonExpression(lhs.val,
                                ComparisonOperatorOf(op.val.v[1]), rhs.val)))))

group_expression(p) ==
    Try(expression(advance(p)), LAMBDA inner :
    Try(expect(inner.p, Delimiter(")")), LAMBDA close :
        POk(close.p, GroupExpression(inner.val))))

expression(p) ==
    LET token == get_current_token(p)
        next  == lookahead(p, 1)
    IN  CASE token = KwTrue -> POk(p, BooleanExpr("True"))
          [] token = KwFalse -> POk(p, BooleanExpr("False"))
          [] token = KwNil -> POk(p, NilLiteral)
          [] token = Delimiter("(") -> group_expression(p)
          [] token.type = "String" -> POk(p, create_string_literal(token.v))
          [] token = BinaryOperator("-") ->
                IF \/ get_current_token(advance(p)).type \in {"Number", "Identifier"}
                   \/ get_current_token(advance(p)) = Delimiter("(")
                THEN Try(expression(advance(p)), LAMBDA inner :
                         POk(inner.p, UnaryExpression(inner.val)))
                ELSE PErr(advance(p), SyntaxError(p.current + 1))
          [] token.type = "Number" ->
                IF next.type = "BinaryOperator" THEN binary_expression(p)
                ELSE IF next.type = "ComparisonOperator" THEN comparison_expression(p)
                ELSE number_literal_at(p, token.v)
          [] token.type = "Identifier" ->
                IF next.type = "BinaryOperator" THEN binary_expression(p)
                ELSE POk(p, IdentifierExpr(token.v))
          [] OTHER -> PPanic(p)

\* The tokens parse_call_site_arguments takes as the start of an argument
starts_argument(token) ==
    \/ token.type \in {"String", "Number", "Identifier"}
    \/ token \in {Delimiter("("), BinaryOperator("-"), KwTrue, KwFalse}

RECURSIVE call_site_loop(_, _)
call_site_loop(p, collected) ==
    IF get_current_token(p) = NoToken \/ ~starts_argument(get_current_token(p))
    THEN POk(p, collected)
    ELSE Try(expression(p), LAMBDA expr :
             IF lookahead(expr.p, 1) = Delimiter(",")
             THEN call_site_loop(advance(advance(expr.p)),
                                 Append(collected, expr.val))
             ELSE POk(expr.p, Append(collected, expr.val)))

parse_call_site_arguments(p) == call_site_loop(p, <<>>)

log_statement(p) ==
    Try(parse_call_site_arguments(advance(p)), LAMBDA expressions :
    Try(expect(expressions.p, Delimiter(";")), LAMBDA semi :
        POk(semi.p, LogStatement(expressions.val))))

expression_statement(p) ==
    Try(expression(p), LAMBDA expr :
    Try(expect(expr.p, Delimiter(";")), LAMBDA semi :
        POk(semi.p, ExpressionStatement(expr.val))))

\* variable_declaration without the test that the name is an Identifier
variable_declaration_unchecked(p) ==
    Try(expect(p, Identifier(<<>>)), LAMBDA name :
    Try(expect(name.p, BinaryOperator("=")), LAMBDA eq :
    Try(expression(advance(eq.p)), LAMBDA value :
    Try(expect(value.p, Delimiter(";")), LAMBDA semi :
        POk(semi.p, VariableDeclaration(name.val.v, value.val))))))

variable_declaration(p) ==
    Try(expect(p, Identifier(<<>>)), LAMBDA name :
        IF name.val.type # "Identifier"
        THEN PErr(name.p, SyntaxError(name.p.current))
        ELSE Try(expect(name.p, BinaryOperator("=")), LAMBDA eq :
             Try(expression(advance(eq.p)), LAMBDA value :
             Try(expect(value.p, Delimiter(";")), LAMBDA semi :
                 POk(semi.p, VariableDeclaration(name.val.v, value.val))))))

variable_reassignment(p) ==
    IF get_current_token(p).type # "Identifier"
    THEN PErr(p, SyntaxError(p.current))
    ELSE Try(expect(p, Equals), LAMBDA eq :
         Try(expression(advance(eq.p)), LAMBDA value :
         Try(expect(value.p, Delimiter(";")), LAMBDA semi :
             POk(semi.p, VariableReassignment(get_current_token(p).v,
                                              value.val)))))

RECURSIVE next_statement(_), block_loop(_, _), block_statement(_), if_statement(_)

block_loop(p, statements) ==
    IF ~(p.current < Len(p.tokens) /\ get_current_token(p) # NoToken)
    THEN POk(p, BlockStatement(statements))
    ELSE Try(next_statement(p), LAMBDA s :
             IF get_current_token(s.p) = Delimiter("}")
             THEN POk(advance(s.p), BlockStatement(Append(statements, s.val)))
             ELSE IF get_current_token(s.p) = NoToken THEN PPanic(s.p)
             ELSE block_loop(s.p, Append(statements, s.val)))

block_statement(p) == block_loop(advance(p), <<>>)

if_statement(p) ==
    Try(expect(p, Delimiter("(")), LAMBDA open :
    Try(expression(advance(open.p)), LAMBDA condition :
    Try(expect(condition.p, Delimiter(")")), LAMBDA close :
    Try(expect(close.p, KwThen), LAMBDA then :
    Try(block_statement(advance(then.p)), LAMBDA body :
        POk(body.p, IfStatement(condition.val, body.val)))))))

next_statement(p) ==
    LET token == get_current_token(p)
    IN  CASE token = KwVar -> variable_declaration(p)
          [] token = KwLog -> log_statement(p)
          [] token = KwIf -> if_statement(p)
          [] token = Delimiter("{") -> block_statement(p)
          [] \/ token \in {KwTrue, KwFalse, BinaryOperator("-"), Delimiter("(")}
             \/ token.type \in {"String", "Number"} -> expression_statement(p)
          [] token.type = "Identifier" ->
                IF lookahead(p, 1) = Equals THEN variable_reassignment(p)
                ELSE expression_statement(p)
          [] token = Delimiter(";") -> POk(advance(p), EmptyStatement)
          [] OTHER -> PErr(p, UnknownToken(p.current))

----------------------------------------------------------------------------
(* Runtime values and Scope: src/evaluator/types.rs *)

NumberValue(n) == [type |-> "Number", n |-> n]
StringValue(s) == [type |-> "String", s |-> s]
BooleanValue(b) == [type |-> "Boolean", b |-> b]
NoneValue == [type |-> "None"]

RECURSIVE Cat(_)
Cat(chars) == IF chars = <<>> THEN "" ELSE Head(chars) \o Cat(Tail(chars))

\* impl Display for RuntimeType; an integer-valued f64 prints without ".0"
Display(value) ==
    CASE value.type = "Number" -> ToString(value.n)
      [] value.type = "String" -> Cat(value.s)
      [] value.type = "Boolean" -> IF value.b = "True" THEN "true" ELSE "false"
      [] OTHER -> "None"

\* variables: the HashMap, a function on the bound names; parent: <<>> for
\* None, <<scope>> for Some(scope)
NewScope(parent) == [variables |-> <<>>, parent |-> parent]

insert(variables, name, value) ==
    [n \in DOMAIN variables \cup {name} |->
        IF n = name THEN value ELSE variables[n]]

\* get_variable that looks in the parent scope only
get_variable_parent_only(scope, name) ==
    IF scope.parent # <<>> /\ name \in DOMAIN scope.parent[1].variables
    THEN [ok |-> TRUE, v |-> scope.parent[1].variables[name]]
    ELSE [ok |-> FALSE, v |-> NoneValue]

RECURSIVE get_variable(_, _)
get_variable(scope, name) ==
    IF name \in DOMAIN scope.variables
    THEN [ok |-> TRUE, v |-> scope.variables[name]]
    ELSE IF scope.parent # <<>> THEN get_variable(scope.parent[1], name)
    ELSE [ok |-> FALSE, v |-> NoneValue]

\* set_variable that overwrites a binding instead of failing
set_variable_overwriting(scope, name, value) ==
    [ok |-> TRUE, scope |-> [scope EXCEPT !.variables = insert(@, name, value)]]

set_variable(scope, name, value) ==
    IF name \in DOMAIN scope.variables
    THEN [ok |-> FALSE, scope |-> scope]
    ELSE [ok |-> TRUE,
          scope |-> [scope EXCEPT !.variables = insert(@, name, value)]]

\* reassign_variable that binds a name that was not bound
reassign_variable_or_insert(scope, name, value) ==
    [ok |-> TRUE, scope |-> [scope EXCEPT !.variables = insert(@, name, value)]]

reassign_variable(scope, name, value) ==
    IF name \in DOMAIN scope.variables
    THEN [ok |-> TRUE,
          scope |-> [scope EXCEPT !.variables = insert(@, name, value)]]
    ELSE [ok |-> FALSE, scope |-> scope]

----------------------------------------------------------------------------
(* Evaluator: src/evaluator/evaluator.rs *)

NoParser == [program |-> <<>>, tokens |-> <<>>, current |-> 0]

NewEvaluator(program) == [program |-> program, scope |-> NewScope(<<>>), ptr |-> 0]

VOk(v) == [ok |-> TRUE, v |-> v]
VPanic == [ok |-> FALSE, v |-> NoneValue]

\* Arithmetic that subtracts whatever the operator
ArithSubtracts(operator, l, r) == l - r

\* f64 arithmetic on integer values.  A quotient that is no integer, and
\* division or modulus by zero (inf, NaN), are outside the modelled values: no
\* source text of the model has a '/' or '%' that is evaluated.
Arith(operator, l, r) ==
    CASE operator = "Plus" -> l + r
      [] operator = "Minus" -> l - r
      [] operator = "Multiply" -> l * r
      [] operator = "Divide" /\ r # 0 /\ l % r = 0 -> l \div r
      [] operator = "Modulus" /\ r > 0 /\ l >= 0 -> l % r

RECURSIVE evaluate_expression(_, _)

evaluate_binary_expression(scope, lhs, rhs, operator) ==
    LET l == evaluate_expression(scope, lhs)
        r == evaluate_expression(scope, rhs)
    IN  IF ~l.ok \/ ~r.ok THEN VPanic
        ELSE IF l.v.type # "Number" \/ r.v.type # "Number" THEN VPanic
        ELSE VOk(NumberValue(Arith(operator, l.v.n, r.v.n)))

evaluate_comparison_expression(scope, lhs, rhs, operator) ==
    LET l == evaluate_expression(scope, lhs)
        r == evaluate_expression(scope, rhs)
        bool(b) == BooleanValue(IF b THEN "True" ELSE "False")
    IN  IF ~l.ok \/ ~r.ok THEN VPanic
        ELSE CASE operator \in {"And", "Or"} ->
                    IF l.v.type # "Boolean" \/ r.v.type # "Boolean" THEN VPanic
                    ELSE IF operator = "And"
                    THEN VOk(bool(l.v.b = "True" /\ r.v.b = "True"))
                    ELSE VOk(bool(l.v.b = "True" \/ r.v.b = "True"))
               [] operator = "EqualTo" -> VOk(bool(l.v = r.v))
               [] operator = "NotEqualTo" -> VOk(bool(l.v # r.v))
               [] OTHER -> VPanic

evaluate_expression(scope, expr) ==
    CASE expr.e = "BinaryExpression" ->
            evaluate_binary_expression(scope, expr.left_side, expr.right_side,
                                       expr.operator)
      [] expr.e = "ComparisonExpression" ->
            evaluate_comparison_expression(scope, expr.lhs, expr.rhs, expr.operator)
      [] expr.e = "UnaryExpression" ->
            LET ret == evaluate_expression(scope, expr.inner)
            IN  IF ret.ok /\ ret.v.type = "Number"
                THEN VOk(NumberValue(0 - ret.v.n)) ELSE VPanic
      [] expr.e = "GroupExpression" -> evaluate_expression(scope, expr.inner)
      [] expr.e = "Boolean" -> VOk(BooleanValue(expr.b))
      [] expr.e = "NumberLiteral" -> VOk(NumberValue(expr.n))
      [] expr.e = "StringLiteral" -> VOk(StringValue(expr.s))
      [] expr.e = "Identifier" -> get_variable(scope, expr.name)
      [] OTHER -> VPanic

\* The evaluator while a statement runs: the struct, the lines printed, the
\* history of evaluate_statement calls, and whether error()/panic! was hit.
\* An entry of the history holds the statement, its nesting depth, and the
\* cursor, the number of printed lines and the bindings when it was entered.
Entered(st, stmt, depth) ==
    [st EXCEPT !.hist = Append(@, [stmt |-> stmt, depth |-> depth,
                                   ptr |-> st.ev.ptr, lines |-> Len(st.out),
                                   variables |-> st.ev.scope.variables])]

Panicked(st) == [st EXCEPT !.panic = TRUE]

eval_advance(st) == [st EXCEPT !.ev.ptr = @ + 1]

println(st, line) == [st EXCEPT !.out = Append(@, line)]

\* evaluate_empty_statement that starts the scope afresh
evaluate_empty_statement_clearing(st) ==
    eval_advance([st EXCEPT !.ev.scope = NewScope(<<>>)])

evaluate_empty_statement(st) == eval_advance(st)

evaluate_expression_statement(st, expr) ==
    LET v == evaluate_expression(st.ev.scope, expr)
    IN  IF ~v.ok THEN Panicked(st)
        ELSE eval_advance(println(st, "[expr_stmt] " \o Display(v.v)))

\* evaluate_variable_declaration that also logs the value it binds
evaluate_variable_declaration_logged(st, name, value) ==
    IF ~evaluate_expression(st.ev.scope, value).ok
       \/ ~set_variable(st.ev.scope, name,
                        evaluate_expression(st.ev.scope, value).v).ok
    THEN Panicked(st)
    ELSE eval_advance(println(
            [st EXCEPT !.ev.scope =
                set_variable(st.ev.scope, name,
                             evaluate_expression(st.ev.scope, value).v).scope],
            "[var_decl] " \o Display(evaluate_expression(st.ev.scope, value).v)))

evaluate_variable_declaration(st, name, value) ==
    LET v == evaluate_expression(st.ev.scope, value)
        set == set_variable(st.ev.scope, name, v.v)
    IN  IF ~v.ok \/ ~set.ok THEN Panicked(st)
        ELSE eval_advance([st EXCEPT !.ev.scope = set.scope])

evaluate_variable_reassignment(st, name, value) ==
    LET v == evaluate_expression(st.ev.scope, value)
        set == reassign_variable(st.ev.scope, name, v.v)
    IN  IF ~v.ok \/ ~set.ok THEN Panicked(st)
        ELSE eval_advance([st EXCEPT !.ev.scope = set.scope])

\* val_to_print that reads the first argument before looking at the length
RECURSIVE val_to_print_reads_first(_, _, _)
val_to_print_reads_first(scope, args, ptr) ==
    IF args = <<>> THEN [ok |-> FALSE, s |-> ""]
    ELSE IF ptr >= Len(args) THEN [ok |-> TRUE, s |-> ""]
    ELSE IF ~evaluate_expression(scope, args[ptr + 1]).ok
            \/ ~val_to_print_reads_first(scope, args, ptr + 1).ok
    THEN [ok |-> FALSE, s |-> ""]
    ELSE [ok |-> TRUE,
          s |-> Display(evaluate_expression(scope, args[ptr + 1]).v)
                  \o (IF ptr = Len(args) - 1 THEN "" ELSE " ")
                  \o val_to_print_reads_first(scope, args, ptr + 1).s]

\* val_to_print: the arguments' textual forms joined by one space
RECURSIVE val_to_print(_, _, _)
val_to_print(scope, args, ptr) ==
    IF ptr >= Len(args) THEN [ok |-> TRUE, s |-> ""]
    ELSE LET expr == evaluate_expression(scope, args[ptr + 1])
             rest == val_to_print(scope, args, ptr + 1)
         IN  IF ~expr.ok \/ ~rest.ok THEN [ok |-> FALSE, s |-> ""]
             ELSE IF ptr = Len(args) - 1
             THEN [ok |-> TRUE, s |-> Display(expr.v) \o rest.s]
             ELSE [ok |-> TRUE, s |-> Display(expr.v) \o " " \o rest.s]

evaluate_log_statement(st, args) ==
    LET line == val_to_print(st.ev.scope, args, 0)
    IN  IF ~line.ok THEN Panicked(st)
        ELSE eval_advance(println(st, line.s))

RECURSIVE evaluate_statement(_, _, _), evaluate_block_statement(_, _, _)

\* evaluate_block_statement that drops the block's bindings when it returns
RECURSIVE evaluate_block_statement_scoped(_, _, _)
evaluate_block_statement_scoped(st, statements, depth) ==
    IF statements = <<>> \/ st.panic THEN st
    ELSE [evaluate_block_statement_scoped(
              evaluate_statement(st, Head(statements), depth),
              Tail(statements), depth) EXCEPT !.ev.scope = st.ev.scope]

\* Nothing advances the cursor for the block itself: each child does, for itself.
evaluate_block_statement(st, statements, depth) ==
    IF statements = <<>> \/ st.panic THEN st
    ELSE evaluate_block_statement(evaluate_statement(st, Head(statements), depth),
                                  Tail(statements), depth)

\* evaluate_if_statement that runs the body whatever the Boolean
evaluate_if_statement_unconditional(st, condition, body, depth) ==
    IF ~evaluate_expression(st.ev.scope, condition).ok
       \/ evaluate_expression(st.ev.scope, condition).v.type # "Boolean"
    THEN Panicked(st)
    ELSE IF body.s = "BlockStatement"
    THEN evaluate_block_statement(st, body.statements, depth + 1)
    ELSE Panicked(st)

evaluate_if_statement(st, condition, body, depth) ==
    LET c == evaluate_expression(st.ev.scope, condition)
    IN  IF ~c.ok \/ c.v.type # "Boolean" THEN Panicked(st)
        ELSE IF c.v.b = "True"
        THEN IF body.s = "BlockStatement"
             THEN evaluate_block_statement(st, body.statements, depth + 1)
             ELSE Panicked(st)
        ELSE eval_advance(st)

evaluate_statement(st, statement, depth) ==
    LET in == Entered(st, statement, depth)
    IN  CASE statement.s = "ExpressionStatement" ->
                evaluate_expression_statement(in, statement.expr)
          [] statement.s = "LogStatement" ->
                evaluate_log_statement(in, statement.args)
          [] statement.s = "IfStatement" ->
                evaluate_if_statement(in, statement.condition, statement.body, depth)
          [] statement.s = "VariableDeclaration" ->
                evaluate_variable_declaration(in, statement.name, statement.value)
          [] statement.s = "VariableReassignment" ->
                evaluate_variable_reassignment(in, statement.name, statement.value)
          [] statement.s = "BlockStatement" ->
                evaluate_block_statement(in, statement.statements, depth + 1)
          [] statement.s = "EmptyStatement" -> evaluate_empty_statement(in)
          [] OTHER -> Panicked(in)

get_current_statement(ev) == ev.program[ev.ptr + 1]

\* evaluate_program, for as long as the history has room
RECURSIVE evaluate_program(_)
evaluate_program(st) ==
    IF st.panic \/ ~(st.ev.ptr < Len(st.ev.program)) \/ Len(st.hist) >= MaxExecuted
    THEN st
    ELSE evaluate_program(evaluate_statement(st, get_current_statement(st.ev), 0))

----------------------------------------------------------------------------
(* The scanner alone, one pass of scan()'s loop per step *)

ScanAlphabet == {"a", "1", "_", "\"", "-", "+", "<", "=", ";", "\n", " ", NBSP}

RECURSIVE TextsUpTo(_)
TextsUpTo(n) ==
    IF n = 0 THEN {<<>>}
    ELSE LET shorter == TextsUpTo(n - 1)
         IN  shorter \cup {Append(t, c) : t \in {s \in shorter : Len(s) = n - 1},
                                          c \in ScanAlphabet}

\* A comment between two short texts, ended by a newline
CommentParts == { <<>>, <<"a">>, <<"1">>, <<" ">>, <<"\n">>, <<"\"">> }

CommentTexts ==
    { before \o <<"-", "-">> \o inside \o <<"\n">> \o after :
        before \in CommentParts, inside \in CommentParts, after \in CommentParts }

ScanTexts == TextsUpTo(MaxTextLen) \cup CommentTexts

InitScan ==
    /\ \E text \in ScanTexts : scanner = NewScanner(text)
    /\ parser = NoParser
    /\ parse_result = [kind |-> "none"]
    /\ evaluator = NewEvaluator(<<>>)
    /\ output = <<>>
    /\ executed = <<>>
    /\ pc = "scan"

NextToken ==
    /\ pc = "scan"
    /\ scan_loop_cond(scanner)
    /\ Len(scanner.tokens) < MaxTokens
    /\ LET r == next_token(scanner)
       IN  /\ scanner' = r.sc
           /\ pc' = IF r.panic THEN "panic" ELSE "scan"
    /\ UNCHANGED <<parser, parse_result, evaluator, output, executed>>

ScanReturn ==
    /\ pc = "scan"
    /\ ~scan_loop_cond(scanner)
    /\ pc' = "scanned"
    /\ UNCHANGED <<scanner, parser, parse_result, evaluator, output, executed>>

NextScan == NextToken \/ ScanReturn

SpecScan == InitScan /\ [][NextScan]_vars

----------------------------------------------------------------------------
(* run(source_code) of src/main.rs: scan, then parse_all, then                *)
(* evaluate_program on whatever was parsed, one loop iteration per step       *)

Sp == <<" ">>

\* Source text of the statements the programs are made of
SrcIdents == { <<"x">>, <<"y">>, <<"m","o","n","e","y">> }
SrcNumbers == { <<"1">>, <<"2">>, <<"5">>, <<"1","0","0">> }

SrcVar(n, e) == <<"v","a","r"," ">> \o n \o <<" ","="," ">> \o e \o <<";">>
SrcAssign(n, e) == n \o <<" ","="," ">> \o e \o <<";">>
SrcLog(e) == <<"l","o","g"," ">> \o e \o <<";">>
SrcSum(a, b) == a \o <<" ","+"," ">> \o b
SrcIf(c, body) ==
    <<"i","f"," ","(">> \o c \o <<")"," ","t","h","e","n"," ","{"," ">>
        \o body \o <<" ","}">>
SrcTrue == <<"t","r","u","e">>
SrcFalse == <<"f","a","l","s","e">>
SrcBadVar == <<"v","a","r"," ","="," ","1","0">>

CoreStmts ==
    << SrcVar(<<"x">>, <<"5">>),
       SrcVar(<<"y">>, SrcSum(<<"x">>, <<"1">>)),
       SrcLog(<<"y">>),
       SrcAssign(<<"x">>, <<"2">>),
       SrcLog(<<"x">>),
       SrcIf(SrcTrue, SrcLog(<<"1">>)),
       SrcIf(SrcFalse, SrcLog(<<"1">>)),
       <<"l","o","g",";">>,
       <<";">>,
       SrcBadVar,
       SrcIf(SrcTrue, SrcAssign(<<"x">>, <<"7">>) \o Sp \o SrcLog(<<"x">>)),
       SrcVar(<<"x">>, <<"1">>),
       SrcSum(<<"1">>, <<"2">>) \o <<";">>,
       <<"v","a","r"," ","x">> >>

RECURSIVE JoinStmts(_)
JoinStmts(ix) ==
    IF ix = <<>> THEN <<>>
    ELSE IF Len(ix) = 1 THEN CoreStmts[ix[1]]
    ELSE CoreStmts[ix[1]] \o Sp \o JoinStmts(Tail(ix))

StmtSeqs == UNION { [1..n -> 1..Len(CoreStmts)] : n \in 0..MaxStmts }

\* Up to MaxStmts statements, alone or after `var x = 5;`
CorePrograms ==
    { JoinStmts(ix) : ix \in StmtSeqs }
        \cup { JoinStmts(<<1>> \o ix) : ix \in StmtSeqs }

SrcDeclareUseLog ==
    SrcVar(<<"x">>, <<"5">>) \o Sp \o SrcVar(<<"y">>, SrcSum(<<"x">>, <<"1">>))
        \o Sp \o SrcLog(<<"y">>)

\* `var` followed by a token that is no Identifier
SrcBadVars ==
    { <<"v","a","r"," ">> \o t :
        t \in { <<"=", " ", "1", "0">>, <<"5", " ", "=", " ", "1", ";">>,
                <<";">>, <<"\"", "s", "\"", " ", "=", " ", "1", ";">>,
                <<"(", " ", "x">>, <<"l", "o", "g", " ", "1", ";">> } }

\* Texts that end in the middle of a statement
SrcTruncated ==
    { <<"i","f"," ","(","t","r","u","e">>,
      <<"i","f"," ","(","t","r","u","e",")">>,
      <<"i","f"," ","(","t","r","u","e",")"," ","t","h","e","n">>,
      <<"v","a","r"," ","x"," ","="," ","5">>,
      <<"l","o","g"," ","1">>,
      <<"(","1">> }

\* A string literal that holds a newline, logged and as a statement
SrcMultilineString == <<"\"", "a", "\n", "b", "\"">>

SrcMultiline ==
    { SrcLog(SrcMultilineString), SrcMultilineString \o <<";">>,
      SrcLog(<<"\"", "a", "\"">>) }

\* `a op1 b op2 c`: two operators between three operands
SrcOperands == { <<"2">>, <<"x">> }
SrcOperators == { "+", "-", "*", "/" }

SrcChain(a, op1, b, op2, c) ==
    a \o <<" ", op1, " ">> \o b \o <<" ", op2, " ">> \o c

\* The chain as a statement, and logged in a body that is parsed but not run
SrcChains ==
    { SrcChain(a, op1, b, op2, c) \o <<";">> :
        a \in SrcOperands, b \in SrcOperands, c \in SrcOperands,
        op1 \in SrcOperators \ {"/"}, op2 \in SrcOperators \ {"/"} }
      \cup
    { SrcIf(SrcFalse, SrcLog(SrcChain(a, op1, b, op2, c))) :
        a \in SrcOperands, b \in SrcOperands, c \in SrcOperands,
        op1 \in SrcOperators, op2 \in SrcOperators }

SrcBlock(body) == <<"{", " ">> \o body \o <<" ", "}">>

\* A declaration in a block or an if body, then read after it (one `;` stands
\* between: the body's two statements moved the cursor by two), and a
\* declaration in a block or an if body of a name declared before it
SrcDeclaredInside(n, v) ==
    { SrcBlock(SrcVar(n, v)), SrcIf(SrcTrue, SrcVar(n, v)) }

SrcScoped ==
    UNION { { inside \o <<" ", ";", " ">> \o SrcLog(n) :
                inside \in SrcDeclaredInside(n, v) }
              \cup { SrcVar(n, <<"2">>) \o Sp \o inside :
                        inside \in SrcDeclaredInside(n, v) }
              \cup { SrcIf(SrcFalse, SrcVar(n, v)) \o <<" ", ";", " ">> \o SrcLog(n) } :
            n \in SrcIdents, v \in SrcNumbers \ {<<"2">>} }

\* What stands between the identifier and the value of `var x <t> 5;`
SrcNotEquals == { <<"+">>, <<"*">>, <<"<">>, <<"(">>, <<"y">>, <<"l","o","g">> }

SrcVarWithout(t) == <<"v","a","r"," ","x"," ">> \o t \o <<" ","5",";">>

\* What stands after `then` in `if (true) then <t> log 1; }`
SrcNotBrace == { <<>>, <<"(">>, <<"x">>, <<";">>, <<"}">> }

SrcIfWithout(t) ==
    <<"i","f"," ","(","t","r","u","e",")"," ","t","h","e","n"," ">> \o t
        \o <<" ">> \o SrcLog(<<"1">>) \o <<" ","}">>

SrcUnchecked ==
    { SrcVarWithout(t) : t \in SrcNotEquals } \cup { SrcIfWithout(t) : t \in SrcNotBrace }

\* Blocks without statements, and blocks whose `}` is missing
SrcIfThen == <<"i","f"," ","(","t","r","u","e",")"," ","t","h","e","n"," ">>

SrcEmptyBlocks ==
    { <<"{", " ", "}">>, <<"{", "}">>, SrcIfThen \o <<"{", " ", "}">> }

SrcUnclosedBlocks ==
    { <<"{">>,
      <<"{", " ">> \o SrcLog(<<"1">>),
      <<"{", " ", "l", "o", "g", " ", "1">>,
      <<"{", " ", ";">>,
      <<"{", " ", "{", " ">> \o SrcLog(<<"1">>) \o <<" ", "}">>,
      SrcIfThen \o <<"{">>,
      SrcIfThen \o <<"{", " ">> \o SrcLog(<<"1">>) }

\* `log e1, ..., ek;` for one to three arguments
SrcArguments == { <<"1">>, <<"x">>, <<"\"", "s", "\"">>, SrcSum(<<"1">>, <<"2">>) }

RECURSIVE SrcCommaList(_)
SrcCommaList(es) ==
    IF Len(es) = 1 THEN es[1] ELSE es[1] \o <<",", " ">> \o SrcCommaList(Tail(es))

SrcArgumentLists == UNION { [1..k -> SrcArguments] : k \in 1..3 }

SrcLogLists == { SrcLog(SrcCommaList(es)) : es \in SrcArgumentLists }

\* A number, an identifier or a group, then an operator and `2;`
SrcPrimaries == { <<"1">>, <<"x">>, <<"(", "1", ")">> }

SrcInfix(primary, op) == primary \o <<" ", op, " ", "2", ";">>

SrcInfixes == { SrcInfix(primary, op) : primary \in SrcPrimaries, op \in {"+", "<"} }

FamilyPrograms ==
    { SrcVar(n, v) : n \in SrcIdents, v \in SrcNumbers }
        \cup { SrcLog(SrcSum(a, b)) : a \in SrcNumbers, b \in SrcNumbers }
        \cup { SrcDeclareUseLog }
        \cup SrcBadVars
        \cup { CoreStmts[1] \o Sp \o t : t \in SrcBadVars }
        \cup SrcTruncated
        \cup SrcMultiline
        \cup SrcChains
        \cup SrcScoped
        \cup SrcUnchecked
        \cup SrcEmptyBlocks
        \cup SrcUnclosedBlocks
        \cup SrcLogLists
        \cup SrcInfixes

ProgramSources == CorePrograms \cup FamilyPrograms

NoResult == [kind |-> "none"]
OkResult == [kind |-> "Ok"]
ErrResult(err) == [kind |-> "Err", error |-> err.error, position |-> err.position]

Init ==
    /\ \E text \in ProgramSources : scanner = NewScanner(text)
    /\ parser = NoParser
    /\ parse_result = NoResult
    /\ evaluator = NewEvaluator(<<>>)
    /\ output = <<>>
    /\ executed = <<>>
    /\ pc = "scan"

\* scanner.scan(); parser = Parser::new(scanner.tokens, debug)
Scan ==
    /\ pc = "scan"
    /\ LET r == scan(scanner)
       IN  /\ scanner' = r.sc
           /\ pc' = IF r.outcome = "ok" THEN "parse" ELSE r.outcome
           /\ parser' = IF r.outcome = "ok" THEN NewParser(r.sc.tokens) ELSE parser
    /\ UNCHANGED <<parse_result, evaluator, output, executed>>

\* parse_all as one call: the parser it leaves, and Ok, Err or a panic
RECURSIVE parse_all(_)
parse_all_on(n) ==
    CASE n.kind = "Ok" -> parse_all(add_statement(n.p, n.val))
      [] n.kind = "Err" -> [p |-> n.p, result |-> ErrResult(n.err), panic |-> FALSE]
      [] OTHER -> [p |-> n.p, result |-> NoResult, panic |-> TRUE]

parse_all(p) ==
    IF p.current < Len(p.tokens) THEN parse_all_on(next_statement(p))
    ELSE [p |-> p, result |-> OkResult, panic |-> FALSE]

\* run as one call: the lines the evaluator printed, what parse_all returned
\* and how the run ended
run_evaluated(result, st) ==
    [out |-> st.out, result |-> result,
     outcome |-> IF st.panic THEN "panic"
                 ELSE IF st.ev.ptr < Len(st.ev.program) THEN "eval" ELSE "done"]

run_parsed(parsed) ==
    IF parsed.panic THEN [out |-> <<>>, result |-> NoResult, outcome |-> "panic"]
    ELSE run_evaluated(parsed.result,
            evaluate_program([ev |-> NewEvaluator(parsed.p.program), out |-> <<>>,
                              hist |-> <<>>, panic |-> FALSE]))

run_scanned(r) ==
    IF r.outcome # "ok" THEN [out |-> <<>>, result |-> NoResult, outcome |-> r.outcome]
    ELSE run_parsed(parse_all(NewParser(r.sc.tokens)))

run(source_code) == run_scanned(scan(NewScanner(source_code)))

\* A pass of parse_all's loop that steps over the token of an error and goes on
ParseStatementResuming ==
    /\ pc = "parse"
    /\ parser.current < Len(parser.tokens)
    /\ LET n == next_statement(parser)
       IN  CASE n.kind = "Ok" ->
                  /\ parser' = add_statement(n.p, n.val)
                  /\ UNCHANGED <<parse_result, evaluator, pc>>
             [] n.kind = "Err" ->
                  /\ parser' = advance(n.p)
                  /\ parse_result' = ErrResult(n.err)
                  /\ UNCHANGED <<evaluator, pc>>
             [] OTHER ->
                  /\ parser' = n.p
                  /\ pc' = "panic"
                  /\ UNCHANGED <<parse_result, evaluator>>
    /\ UNCHANGED <<scanner, output, executed>>

\* One pass of parse_all's loop; on Err, `run` prints it and goes on to
\* evaluate parser.program as it stands.
ParseStatement ==
    /\ pc = "parse"
    /\ parser.current < Len(parser.tokens)
    /\ LET n == next_statement(parser)
       IN  CASE n.kind = "Ok" ->
                  /\ parser' = add_statement(n.p, n.val)
                  /\ UNCHANGED <<parse_result, evaluator, pc>>
             [] n.kind = "Err" ->
                  /\ parser' = n.p
                  /\ parse_result' = ErrResult(n.err)
                  /\ evaluator' = NewEvaluator(n.p.program)
                  /\ pc' = "eval"
             [] OTHER ->
                  /\ parser' = n.p
                  /\ pc' = "panic"
                  /\ UNCHANGED <<parse_result, evaluator>>
    /\ UNCHANGED <<scanner, output, executed>>

\* parse_all returns Ok(()); evaluator = Evaluator::new(parser.program, debug)
ParseReturn ==
    /\ pc = "parse"
    /\ ~(parser.current < Len(parser.tokens))
    /\ parse_result' = OkResult
    /\ evaluator' = NewEvaluator(parser.program)
    /\ pc' = "eval"
    /\ UNCHANGED <<scanner, parser, output, executed>>

\* A pass of evaluate_program's loop that may leave the statement out
EvaluateStatementOrSkip ==
    /\ pc = "eval"
    /\ evaluator.ptr < Len(evaluator.program)
    /\ Len(executed) < MaxExecuted
    /\ \/ LET st == evaluate_statement(
                       [ev |-> evaluator, out |-> output, hist |-> executed,
                        panic |-> FALSE],
                       get_current_statement(evaluator), 0)
          IN  /\ evaluator' = st.ev
              /\ output' = st.out
              /\ executed' = st.hist
              /\ pc' = IF st.panic THEN "panic" ELSE "eval"
       \/ /\ evaluator' = [evaluator EXCEPT !.ptr = @ + 1]
          /\ UNCHANGED <<output, executed, pc>>
    /\ UNCHANGED <<scanner, parser, parse_result>>

\* One pass of evaluate_program's loop
EvaluateStatement ==
    /\ pc = "eval"
    /\ evaluator.ptr < Len(evaluator.program)
    /\ Len(executed) < MaxExecuted
    /\ LET st == evaluate_statement(
                    [ev |-> evaluator, out |-> output, hist |-> executed,
                     panic |-> FALSE],
                    get_current_statement(evaluator), 0)
       IN  /\ evaluator' = st.ev
           /\ output' = st.out
           /\ executed' = st.hist
           /\ pc' = IF st.panic THEN "panic" ELSE "eval"
    /\ UNCHANGED <<scanner, parser, parse_result>>

EvaluateReturn ==
    /\ pc = "eval"
    /\ ~(evaluator.ptr < Len(evaluator.program))
    /\ pc' = "done"
    /\ UNCHANGED <<scanner, parser, parse_result, evaluator, output, executed>>

Next == Scan \/ ParseStatement \/ ParseReturn \/ EvaluateStatement \/ EvaluateReturn

Spec == Init /\ [][Next]_vars

----------------------------------------------------------------------------
(* The evaluator alone, on a program handed to Evaluator::new as it is *)

EvalConditions == { BooleanExpr("True"), BooleanExpr("False"), NumberLiteral(1) }

EvalBodies ==
    { LogStatement(<< NumberLiteral(1) >>),
      EmptyStatement,
      VariableDeclaration(<<"x">>, NumberLiteral(5)),
      BlockStatement(<< LogStatement(<< NumberLiteral(1) >>) >>) }

EvalStatements ==
    { IfStatement(c, b) : c \in EvalConditions, b \in EvalBodies }
        \cup { LogStatement(<< NumberLiteral(2) >>) }

EvalPrograms == UNION { [1..n -> EvalStatements] : n \in 1..MaxStmts }

InitEval ==
    /\ scanner = NewScanner(<<>>)
    /\ parser = NoParser
    /\ parse_result = NoResult
    /\ \E program \in EvalPrograms : evaluator = NewEvaluator(program)
    /\ output = <<>>
    /\ executed = <<>>
    /\ pc = "eval"

NextEval == EvaluateStatement \/ EvaluateReturn

SpecEval == InitEval /\ [][NextEval]_vars

----------------------------------------------------------------------------
(* Scope alone: a scope with or without a parent, and calls of its methods.
   executed holds the calls made: the method, the name, the scope it was
   called on and whether it returned. *)

ScopeNames == { <<"x">>, <<"y">> }
ScopeValues == { NumberValue(1), NumberValue(2) }

\* The maps a scope may hold at the start: some of the names bound to 1
ScopeVariables ==
    { [n \in names |-> NumberValue(1)] : names \in SUBSET ScopeNames }

ScopeChains ==
    { [variables |-> vs, parent |-> <<>>] : vs \in ScopeVariables }
        \cup { [variables |-> vs,
                parent |-> << [variables |-> ps, parent |-> <<>>] >>] :
                    vs \in ScopeVariables, ps \in ScopeVariables }

ScopeCall(method, name, ok) ==
    [method |-> method, name |-> name, scope |-> evaluator.scope, ok |-> ok]

InitScope ==
    /\ scanner = NewScanner(<<>>)
    /\ parser = NoParser
    /\ parse_result = NoResult
    /\ \E scope \in ScopeChains :
          evaluator = [program |-> <<>>, scope |-> scope, ptr |-> 0]
    /\ output = <<>>
    /\ executed = <<>>
    /\ pc = "scope"

GetVariable ==
    /\ pc = "scope"
    /\ Len(executed) < MaxCalls
    /\ \E name \in ScopeNames :
          /\ executed' = Append(executed,
                ScopeCall("get_variable", name, get_variable(evaluator.scope, name).ok))
          /\ pc' = IF get_variable(evaluator.scope, name).ok THEN "scope" ELSE "panic"
    /\ UNCHANGED <<scanner, parser, parse_result, evaluator, output>>

SetVariable ==
    /\ pc = "scope"
    /\ Len(executed) < MaxCalls
    /\ \E name \in ScopeNames, value \in ScopeValues :
          /\ executed' = Append(executed,
                ScopeCall("set_variable", name,
                          set_variable(evaluator.scope, name, value).ok))
          /\ evaluator' = [evaluator EXCEPT
                !.scope = set_variable(evaluator.scope, name, value).scope]
          /\ pc' = IF set_variable(evaluator.scope, name, value).ok
                   THEN "scope" ELSE "panic"
    /\ UNCHANGED <<scanner, parser, parse_result, output>>

ReassignVariable ==
    /\ pc = "scope"
    /\ Len(executed) < MaxCalls
    /\ \E name \in ScopeNames, value \in ScopeValues :
          /\ executed' = Append(executed,
                ScopeCall("reassign_variable", name,
                          reassign_variable(evaluator.scope, name, value).ok))
          /\ evaluator' = [evaluator EXCEPT
                !.scope = reassign_variable(evaluator.scope, name, value).scope]
          /\ pc' = IF reassign_variable(evaluator.scope, name, value).ok
                   THEN "scope" ELSE "panic"
    /\ UNCHANGED <<scanner, parser, parse_result, output>>

NextScope == GetVariable \/ SetVariable \/ ReassignVariable

SpecScope == InitScope /\ [][NextScope]_vars

----------------------------------------------------------------------------
(* Properties of the scanner, checked under SpecScan *)

\* C1: for every source string of recognized characters, when scan finishes
\* the token sequence is non-empty, its last token is EndOfFile, and no other
\* token is EndOfFile.
C1_ScanEndsWithOneEndOfFile ==
    pc = "scanned" =>
        /\ scanner.tokens # <<>>
        /\ scanner.tokens[Len(scanner.tokens)] = EndOfFile
        /\ \A i \in 1..(Len(scanner.tokens) - 1) : scanner.tokens[i] # EndOfFile

\* C2: the cursor never decreases, and every dispatch step of next_token
\* strictly increases it (so that scan, whose loop ends once the cursor has
\* passed the text, terminates).
C2_EveryDispatchAdvancesCursor ==
    [][ /\ scanner'.current >= scanner.current
        /\ NextToken => scanner'.current > scanner.current ]_vars

\* The newlines among the first k characters of the text
NewlinesBefore(text, k) ==
    Cardinality({ i \in 1..k : i <= Len(text) /\ text[i] = "\n" })

\* scan_string takes the newlines inside a string literal without counting them.
NoStringScanned ==
    \A i \in 1..Len(scanner.tokens) : scanner.tokens[i].type # "String"

AtComment ==
    /\ get_current_char(scanner) = "-"
    /\ get_current_char(scan_advance(scanner)) = "-"

----------------------------------------------------------------------------
(* Properties of the parser, checked under Spec *)

\* The number a literal's text denotes, read off the text itself
LiteralValue(v) ==
    CASE v = <<"1">> -> 1
      [] v = <<"2">> -> 2
      [] v = <<"5">> -> 5
      [] v = <<"1","0","0">> -> 100

Parsed == pc \in {"eval", "done"}

\* C3 as stated: parsing `var n = v;` returns Ok and leaves a program of
\* exactly one statement, VariableDeclaration(n, NumberLiteral(v)).
C3_ExactlyOneStatement ==
    \A n \in SrcIdents, v \in SrcNumbers :
        scanner.text = SrcVar(n, v) =>
            /\ pc \notin {"panic", "hang"}
            /\ Parsed =>
                /\ parse_result = OkResult
                /\ parser.program =
                      << VariableDeclaration(n, NumberLiteral(LiteralValue(v))) >>

\* C3 amended: parsing `var n = v;` returns Ok and leaves a program of exactly
\* two statements: VariableDeclaration(n, NumberLiteral(v)), then one
\* EmptyStatement read from the closing `;`.
C3_DeclarationThenEmptyStatement ==
    \A n \in SrcIdents, v \in SrcNumbers :
        scanner.text = SrcVar(n, v) =>
            /\ pc \notin {"panic", "hang"}
            /\ Parsed =>
                /\ parse_result = OkResult
                /\ parser.program =
                      << VariableDeclaration(n, NumberLiteral(LiteralValue(v))),
                         EmptyStatement >>

C3_Witness ==
    /\ pc = "eval"
    /\ scanner.text = SrcVar(<<"m","o","n","e","y">>, <<"1","0","0">>)
    /\ parse_result = OkResult
    /\ Len(parser.program) = 2

\* C4: a parse_all pass that stands on `var` with a next token that is not an
\* Identifier ends the parse with an error value and adds no statement, so no
\* VariableDeclaration, to the program.
C4_VarWithoutIdentifierIsError ==
    [][ ( /\ ParseStatement
          /\ get_current_token(parser) = KwVar
          /\ lookahead(parser, 1) # NoToken
          /\ lookahead(parser, 1).type # "Identifier" )
        => ( /\ parse_result'.kind = "Err"
             /\ parse_result'.error = "SyntaxError"
             /\ parser'.program = parser.program
             /\ pc' = "eval" ) ]_vars

C4_Witness ==
    /\ scanner.text = CoreStmts[1] \o Sp \o SrcBadVar
    /\ parse_result.kind = "Err"
    /\ parser.program =
          << VariableDeclaration(<<"x">>, NumberLiteral(5)), EmptyStatement >>

----------------------------------------------------------------------------
(* Properties of the evaluator, checked under Spec.  executed[k] is the k-th
   evaluate_statement call with the state it was entered in; a statement that
   holds no other statement leaves its state to the next call, or to the
   current state when it is the last. *)

Calls == 1..Len(executed)

\* The k-th call returned: only the last call of a run that panicked did not.
Returned(k) == k < Len(executed) \/ pc # "panic"

VariablesAt(k) ==
    IF k <= Len(executed) THEN executed[k].variables
    ELSE evaluator.scope.variables

LinesAt(k) == IF k <= Len(executed) THEN executed[k].lines ELSE Len(output)

PtrAt(k) == IF k <= Len(executed) THEN executed[k].ptr ELSE evaluator.ptr

ExecutedStatements == [k \in Calls |-> executed[k].stmt]

\* C5: for all number literals a and b, `log a + b;` prints exactly one line,
\* the textual form of a + b, and the run ends without an error.
C5_LogSumPrintsSum ==
    \A a \in SrcNumbers, b \in SrcNumbers :
        scanner.text = SrcLog(SrcSum(a, b)) =>
            /\ pc \notin {"panic", "hang"}
            /\ Parsed => parse_result = OkResult
            /\ Len(output) <= 1
            /\ pc = "done" =>
                  output = << ToString(LiteralValue(a) + LiteralValue(b)) >>

C5_Witness ==
    /\ pc = "done"
    /\ scanner.text = SrcLog(SrcSum(<<"1">>, <<"2">>))
    /\ output = << "3" >>

ReassignedBetween(n, i, j) ==
    \E k \in (i + 1)..(j - 1) :
        /\ executed[k].stmt.s = "VariableReassignment"
        /\ executed[k].stmt.name = n

\* C6: once a VariableDeclaration has bound n (to the literal's value when the
\* value is a literal), n keeps that value, and `log n` prints it, at every
\* later statement up to the first VariableReassignment of n; and
\* `var x = 5; var y = x + 1; log y;` executes its three statements in order
\* and prints 6.
C6_BindingPersistsUntilReassigned ==
    /\ \A i \in Calls :
          (executed[i].stmt.s = "VariableDeclaration" /\ Returned(i)) =>
              LET n == executed[i].stmt.name
                  value == executed[i].stmt.value
              IN  /\ n \in DOMAIN VariablesAt(i + 1)
                  /\ value.e = "NumberLiteral" =>
                        VariablesAt(i + 1)[n] = NumberValue(value.n)
                  /\ \A j \in (i + 1)..(Len(executed) + 1) :
                        ~ReassignedBetween(n, i, j) =>
                            /\ n \in DOMAIN VariablesAt(j)
                            /\ VariablesAt(j)[n] = VariablesAt(i + 1)[n]
                            /\ ( /\ j \in Calls
                                 /\ executed[j].stmt =
                                       LogStatement(<< IdentifierExpr(n) >>) ) =>
                                  /\ Returned(j)
                                  /\ output[LinesAt(j) + 1] =
                                        Display(VariablesAt(i + 1)[n])
    /\ scanner.text = SrcDeclareUseLog =>
          /\ pc \notin {"panic", "hang"}
          /\ pc = "done" =>
                /\ output = << "6" >>
                /\ SelectSeq(ExecutedStatements,
                             LAMBDA s : s.s # "EmptyStatement") =
                      << VariableDeclaration(<<"x">>, NumberLiteral(5)),
                         VariableDeclaration(<<"y">>,
                             BinaryExpression(IdentifierExpr(<<"x">>), "Plus",
                                              NumberLiteral(1))),
                         LogStatement(<< IdentifierExpr(<<"y">>) >>) >>

C6_Witness ==
    /\ pc = "done"
    /\ scanner.text = SrcDeclareUseLog
    /\ output = << "6" >>
    /\ VariablesAt(Len(executed) + 1)[<<"x">>] = NumberValue(5)

\* The calls made for the statements of the body of the k-th call: those one
\* level deeper, up to the next call that is not deeper than the k-th.
BodyEnd(k) ==
    IF \E j \in (k + 1)..Len(executed) : executed[j].depth <= executed[k].depth
    THEN CHOOSE j \in (k + 1)..Len(executed) :
            /\ executed[j].depth <= executed[k].depth
            /\ \A i \in (k + 1)..(j - 1) : executed[i].depth > executed[k].depth
    ELSE Len(executed) + 1

BodyCalls(k) ==
    LET inner == SelectSeq(SubSeq(executed, k + 1, BodyEnd(k) - 1),
                           LAMBDA e : e.depth = executed[k].depth + 1)
    IN  [i \in 1..Len(inner) |-> inner[i].stmt]

ConditionAt(k) ==
    evaluate_expression([variables |-> executed[k].variables, parent |-> <<>>],
                        executed[k].stmt.condition)

IsPrefix(s, t) == Len(s) <= Len(t) /\ s = SubSeq(t, 1, Len(s))

\* C7: an IfStatement whose condition evaluates to Boolean True has the
\* statements of its body executed once each, in order (up to a fatal error in
\* the body); one whose condition evaluates to Boolean False has none of them
\* executed.  `if (true) then { log 1; }` prints 1 and
\* `if (false) then { log 1; }` prints nothing.
C7_IfBodyOnceOrNotAtAll ==
    /\ \A k \in Calls :
          (executed[k].stmt.s = "IfStatement" /\ ConditionAt(k).ok) =>
              /\ ConditionAt(k).v = BooleanValue("True") =>
                    /\ IsPrefix(BodyCalls(k), executed[k].stmt.body.statements)
                    /\ pc # "panic" =>
                          BodyCalls(k) = executed[k].stmt.body.statements
              /\ ConditionAt(k).v = BooleanValue("False") =>
                    /\ BodyCalls(k) = << >>
                    /\ Returned(k)
                    /\ LinesAt(k + 1) = LinesAt(k)
    /\ scanner.text = SrcIf(SrcTrue, SrcLog(<<"1">>)) =>
          /\ pc \notin {"panic", "hang"}
          /\ pc = "done" => output = << "1" >>
    /\ scanner.text = SrcIf(SrcFalse, SrcLog(<<"1">>)) =>
          /\ pc \notin {"panic", "hang"}
          /\ output = << >>
          /\ pc = "done" => Len(executed) = 1

C7_Witness ==
    /\ pc = "done"
    /\ scanner.text = JoinStmts(<<7, 6>>)
    /\ output = << "1" >>
    /\ BodyCalls(1) = << >>
    /\ BodyCalls(2) = << LogStatement(<< NumberLiteral(1) >>), EmptyStatement >>

\* C8: a VariableReassignment of a name that is not bound when it is executed
\* is the last statement executed: the run ends in a panic, the name is still
\* unbound, the bindings are as they were and nothing more is printed.
C8_ReassignUndeclaredIsFatal ==
    \A k \in Calls :
        ( /\ executed[k].stmt.s = "VariableReassignment"
          /\ executed[k].stmt.name \notin DOMAIN executed[k].variables ) =>
            /\ k = Len(executed)
            /\ pc = "panic"
            /\ executed[k].stmt.name \notin DOMAIN evaluator.scope.variables
            /\ evaluator.scope.variables = executed[k].variables
            /\ Len(output) = executed[k].lines

C8_Witness ==
    /\ pc = "panic"
    /\ scanner.text = CoreStmts[11]
    /\ Len(executed) = 2
    /\ executed[2].stmt = VariableReassignment(<<"x">>, NumberLiteral(7))
    /\ output = << >>

\* C9: a VariableDeclaration of a name that is already bound when it is
\* executed is the last statement executed: the run ends in a panic and the
\* name (like every other) keeps the value it had.
C9_RedeclarationIsFatal ==
    \A k \in Calls :
        ( /\ executed[k].stmt.s = "VariableDeclaration"
          /\ executed[k].stmt.name \in DOMAIN executed[k].variables ) =>
            /\ k = Len(executed)
            /\ pc = "panic"
            /\ evaluator.scope.variables = executed[k].variables
            /\ evaluator.scope.variables[executed[k].stmt.name] =
                  executed[k].variables[executed[k].stmt.name]

C9_Witness ==
    /\ pc = "panic"
    /\ scanner.text = JoinStmts(<<1, 12>>)
    /\ executed[Len(executed)].stmt =
          VariableDeclaration(<<"x">>, NumberLiteral(1))
    /\ evaluator.scope.variables[<<"x">>] = NumberValue(5)

\* C10: a LogStatement with no argument returns without an error, having
\* printed exactly one line, the empty one, and advanced the statement cursor
\* by one.
C10_LogWithoutArgumentsPrintsEmptyLine ==
    \A k \in Calls :
        executed[k].stmt = LogStatement(<< >>) =>
            /\ Returned(k)
            /\ LinesAt(k + 1) = LinesAt(k) + 1
            /\ output[LinesAt(k) + 1] = ""
            /\ PtrAt(k + 1) = PtrAt(k) + 1
            /\ VariablesAt(k + 1) = VariablesAt(k)

C10_Witness ==
    /\ pc = "done"
    /\ scanner.text = JoinStmts(<<8, 9>>)
    /\ executed[1].stmt = LogStatement(<< >>)
    /\ output = << "" >>

----------------------------------------------------------------------------
(* Further properties of the parser, checked under Spec *)

\* C12: a pass of parse_all adds at most one statement, at the end of the
\* program; the pass that meets an error adds none, reports a position that is
\* not before the token the pass started on, and ends the parse: the program
\* is never changed afterwards.  So `var x = 5;` or `log y;` followed by a
\* `var` without a name leave the statement and the EmptyStatement of its `;`.
C12_ParseStopsAtFirstError ==
    /\ [][ ParseStatement =>
            /\ IsPrefix(parser.program, parser'.program)
            /\ Len(parser'.program) <= Len(parser.program) + 1
            /\ parse_result'.kind = "Err" =>
                  /\ parser'.program = parser.program
                  /\ parse_result'.position >= parser.current
                  /\ pc' = "eval" ]_vars
    /\ [][ parse_result.kind = "Err" =>
            (parser' = parser /\ parse_result' = parse_result) ]_vars
    /\ [](\A t \in SrcBadVars :
            (Parsed /\ scanner.text = CoreStmts[1] \o Sp \o t) =>
                /\ parse_result.kind = "Err"
                /\ parser.program =
                      << VariableDeclaration(<<"x">>, NumberLiteral(5)),
                         EmptyStatement >>)
    /\ []((Parsed /\ scanner.text = JoinStmts(<<3, 10>>)) =>
            /\ parse_result.kind = "Err"
            /\ parser.program =
                  << LogStatement(<< IdentifierExpr(<<"y">>) >>), EmptyStatement >>)

C12_Witness ==
    /\ scanner.text = JoinStmts(<<3, 10>>)
    /\ parse_result.kind = "Err"
    /\ parser.program =
          << LogStatement(<< IdentifierExpr(<<"y">>) >>), EmptyStatement >>

\* The pass of parse_all about to run leaves the cursor at or past the end of
\* the tokens without a statement: the tokens ran out inside it.
ExhaustedInStatement ==
    /\ next_statement(parser).kind # "Ok"
    /\ next_statement(parser).p.current >= Len(parser.tokens)

\* C13: a pass of parse_all in which the tokens run out inside a statement
\* ends the parse with the error CurrentIndexOutOfBounds, carrying the index
\* the cursor stood at.
C13_ExhaustionIsIndexOutOfBounds ==
    [][ (ParseStatement /\ ExhaustedInStatement) =>
            /\ parse_result'.kind = "Err"
            /\ parse_result'.error = "CurrentIndexOutOfBounds"
            /\ parse_result'.position = parser'.current ]_vars

----------------------------------------------------------------------------
(* Further properties of the evaluator, checked under Spec *)

ScopeAt(k) == [variables |-> VariablesAt(k), parent |-> << >>]

ValueAt(k, expr) == evaluate_expression(ScopeAt(k), expr).v

\* The text a LogStatement writes: its arguments' forms with a space between
RECURSIVE LoggedText(_, _)
LoggedText(k, args) ==
    IF args = << >> THEN ""
    ELSE IF Len(args) = 1 THEN Display(ValueAt(k, args[1]))
    ELSE Display(ValueAt(k, args[1])) \o " " \o LoggedText(k, Tail(args))

\* The text the k-th call writes, when it is one that writes
WrittenText(k) ==
    IF executed[k].stmt.s = "LogStatement"
    THEN LoggedText(k, executed[k].stmt.args)
    ELSE "[expr_stmt] " \o Display(ValueAt(k, executed[k].stmt.expr))

\* The line ends inside a value's textual form
NewlinesIn(value) ==
    IF value.type = "String"
    THEN Cardinality({ i \in 1..Len(value.s) : value.s[i] = "\n" })
    ELSE 0

RECURSIVE NewlinesInAll(_, _)
NewlinesInAll(k, args) ==
    IF args = << >> THEN 0
    ELSE NewlinesIn(ValueAt(k, args[1])) + NewlinesInAll(k, Tail(args))

\* The lines of output the k-th call's write makes: println! ends the text
\* with one line end, after those the text holds.
WrittenLines(k) ==
    IF executed[k].stmt.s = "LogStatement"
    THEN 1 + NewlinesInAll(k, executed[k].stmt.args)
    ELSE 1 + NewlinesIn(ValueAt(k, executed[k].stmt.expr))

Writes(k) == executed[k].stmt.s \in {"ExpressionStatement", "LogStatement"}

\* Each executed ExpressionStatement and LogStatement that returns makes one
\* write, of its own text, after those of the statements executed before it;
\* no other statement, and no statement that ends in a fatal error, writes.
OneWritePerStatement ==
    \A k \in Calls :
        /\ (Writes(k) /\ Returned(k)) =>
              /\ LinesAt(k + 1) = LinesAt(k) + 1
              /\ output[LinesAt(k) + 1] = WrittenText(k)
        /\ (Writes(k) /\ ~Returned(k)) => Len(output) = LinesAt(k)
        /\ ~Writes(k) => LinesAt(k + 1) = LinesAt(k)

\* C14 as stated: one write per executed ExpressionStatement and
\* LogStatement, in the order they are executed, none by any other
\* statement, and each write is exactly one line of output.
C14_OneLinePerStatement ==
    /\ OneWritePerStatement
    /\ \A k \in Calls : (Writes(k) /\ Returned(k)) => WrittenLines(k) = 1

\* C14 amended: one write per executed ExpressionStatement and LogStatement,
\* in the order they are executed, none by any other statement; a write is
\* one line of output, and one more for each newline held by the String
\* values it prints.
C14_OneWritePerStatement ==
    /\ OneWritePerStatement
    /\ \A k \in Calls :
          (Writes(k) /\ Returned(k)) =>
              /\ WrittenLines(k) >= 1
              /\ (\A i \in 1..Len(parser.tokens) :
                      parser.tokens[i].type = "String" =>
                          \A j \in 1..Len(parser.tokens[i].v) :
                              parser.tokens[i].v[j] # "\n")
                    => WrittenLines(k) = 1
    /\ (pc = "done" /\ scanner.text = SrcLog(SrcMultilineString)) =>
          (Len(output) = 1 /\ WrittenLines(1) = 2)

C14_Witness ==
    /\ pc = "done"
    /\ scanner.text = JoinStmts(<<1, 5, 13>>)
    /\ output = << "5", "[expr_stmt] 3" >>

----------------------------------------------------------------------------
(* Expressions, checked under Spec *)

\* The expression an operand's text denotes, and the operator a character does
OperandExpr(t) == IF t = <<"2">> THEN NumberLiteral(2) ELSE IdentifierExpr(t)

OperatorNamed(c) ==
    CASE c = "+" -> "Plus"
      [] c = "-" -> "Minus"
      [] c = "*" -> "Multiply"
      [] c = "/" -> "Divide"

RightNested(a, op1, b, op2, c) ==
    BinaryExpression(OperandExpr(a), OperatorNamed(op1),
        BinaryExpression(OperandExpr(b), OperatorNamed(op2), OperandExpr(c)))

----------------------------------------------------------------------------
(* Scope of blocks and if bodies, checked under Spec *)

\* The k-th call is a declaration among the statements of a block or if body
DeclaredInBody(k) ==
    executed[k].stmt.s = "VariableDeclaration" /\ executed[k].depth > 0

\* The j-th call comes after the body the k-th call is in has ended
AfterBodyOf(k, j) ==
    \E i \in (k + 1)..j : i \in Calls /\ executed[i].depth < executed[k].depth

\* C16: a variable declared in an executed block or if body is bound in the
\* one scope of the run: it keeps its value at every later statement, inside
\* and after the body, until it is reassigned, and a later `log` of it prints
\* that value; a declaration in a body of a name that is already bound (by a
\* declaration outside) is the last statement executed, the run ending in a
\* panic with the outer value kept.
C16_BodiesRunInCallersScope ==
    /\ \A k \in Calls :
          DeclaredInBody(k) =>
              LET n == executed[k].stmt.name
              IN  IF n \in DOMAIN executed[k].variables
                  THEN /\ k = Len(executed)
                       /\ pc = "panic"
                       /\ evaluator.scope.variables = executed[k].variables
                  ELSE Returned(k) =>
                         \A j \in (k + 1)..(Len(executed) + 1) :
                            ~ReassignedBetween(n, k, j) =>
                                /\ n \in DOMAIN VariablesAt(j)
                                /\ VariablesAt(j)[n] = VariablesAt(k + 1)[n]
                                /\ ( /\ j \in Calls
                                     /\ executed[j].stmt =
                                           LogStatement(<< IdentifierExpr(n) >>) ) =>
                                      /\ Returned(j)
                                      /\ output[LinesAt(j) + 1] =
                                            Display(VariablesAt(k + 1)[n])
    /\ \A n \in SrcIdents, v \in SrcNumbers \ {<<"2">>} :
          \A inside \in SrcDeclaredInside(n, v) :
              /\ scanner.text = inside \o <<" ", ";", " ">> \o SrcLog(n) =>
                    /\ pc \notin {"panic", "hang"}
                    /\ Parsed => parse_result = OkResult
                    /\ pc = "done" =>
                          /\ output = << ToString(LiteralValue(v)) >>
                          /\ evaluator.scope.variables[n] =
                                NumberValue(LiteralValue(v))
              /\ scanner.text = SrcVar(n, <<"2">>) \o Sp \o inside =>
                    /\ pc \notin {"done", "hang"}
                    /\ Parsed => parse_result = OkResult
                    /\ output = << >>
                    /\ (pc = "eval" /\ Len(executed) >= 1) =>
                          evaluator.ptr < Len(evaluator.program)
                    /\ pc = "panic" =>
                          /\ executed[Len(executed)].stmt =
                                VariableDeclaration(n, NumberLiteral(LiteralValue(v)))
                          /\ executed[Len(executed)].depth = 1
                          /\ evaluator.scope.variables[n] = NumberValue(2)

\* `{ var x = 5; } ; log x;` has printed 5, the log being a call after the body
C16_Witness ==
    /\ pc = "done"
    /\ scanner.text = SrcBlock(SrcVar(<<"x">>, <<"5">>)) \o <<" ", ";", " ">>
                          \o SrcLog(<<"x">>)
    /\ output = << "5" >>
    /\ DeclaredInBody(2)
    /\ \E j \in Calls :
          /\ AfterBodyOf(2, j)
          /\ executed[j].stmt = LogStatement(<< IdentifierExpr(<<"x">>) >>)

----------------------------------------------------------------------------
(* The run as a function of the source text, checked under Spec *)

\* The run has come to its end: it returned or panicked, the scanner hangs,
\* or the evaluator is still looping when the history is full.
RunEnded ==
    \/ pc \in {"done", "panic", "hang"}
    \/ pc = "eval" /\ evaluator.ptr < Len(evaluator.program)
                   /\ Len(executed) >= MaxExecuted

----------------------------------------------------------------------------
(* Tokens the parser steps over, checked under Spec *)

HasStatement(kind) ==
    \E i \in DOMAIN parser.program : parser.program[i].s = kind

IsSyntaxError(result) == result.kind = "Err" /\ result.error = "SyntaxError"

\* C18: for every token t other than Equals after the identifier, parsing
\* `var x t 5;` returns a SyntaxError and adds no VariableDeclaration to the
\* program.
C18_DeclarationNeedsEquals ==
    \A t \in SrcNotEquals :
        (scanner.text = SrcVarWithout(t) /\ Parsed) =>
            /\ IsSyntaxError(parse_result)
            /\ ~HasStatement("VariableDeclaration")

\* C19: for every token t other than `{` after `then` (or none), parsing
\* `if (true) then t log 1; }` returns an error and adds no IfStatement: no
\* token is stepped over where the `{` should be.
C19_IfNeedsOpeningBrace ==
    \A t \in SrcNotBrace :
        (scanner.text = SrcIfWithout(t) /\ Parsed) =>
            /\ parse_result.kind = "Err"
            /\ ~HasStatement("IfStatement")

----------------------------------------------------------------------------
(* The body of an if, checked under SpecEval *)

\* C20: an IfStatement whose body is no BlockStatement is the last statement
\* executed and the run ends in a panic, whatever the condition evaluates to.
C20_IfBodyMustBeBlock ==
    \A k \in Calls :
        ( /\ executed[k].stmt.s = "IfStatement"
          /\ executed[k].stmt.body.s # "BlockStatement" ) =>
            /\ k = Len(executed)
            /\ pc = "panic"

----------------------------------------------------------------------------
(* Blocks without statements and blocks left open, checked under Spec *)

\* C21: the tokens `{` `}` parse without error to a BlockStatement with no
\* statements, the cursor ending just past the `}`.
C21_EmptyBlockParses ==
    (scanner.text \in { <<"{", " ", "}">>, <<"{", "}">> } /\ Parsed) =>
        /\ parse_result = OkResult
        /\ parser.program = << BlockStatement(<< >>) >>
        /\ parser.current = 2

----------------------------------------------------------------------------
(* The arguments of log, checked under Spec *)

ArgumentExpr(t) ==
    CASE t = <<"1">> -> NumberLiteral(1)
      [] t = <<"x">> -> IdentifierExpr(<<"x">>)
      [] t = <<"\"", "s", "\"">> -> StringLiteral(<<"s">>)
      [] OTHER -> BinaryExpression(NumberLiteral(1), "Plus", NumberLiteral(2))

\* `log e1, ..., ek;` parses to a LogStatement of e1, ..., ek in that order
LogListKeepsArguments ==
    \A es \in SrcArgumentLists :
        (scanner.text = SrcLog(SrcCommaList(es)) /\ Parsed) =>
            /\ parse_result = OkResult
            /\ Len(parser.program) >= 1
            /\ parser.program[1] =
                  LogStatement([i \in 1..Len(es) |-> ArgumentExpr(es[i])])

\* C22: `log;` parses without error to a LogStatement with no arguments, and
\* `log e1, ..., ek;` to a LogStatement of exactly those k expressions in
\* source order.
C22_LogHoldsItsArguments ==
    /\ (scanner.text = <<"l", "o", "g", ";">> /\ Parsed) =>
          /\ parse_result = OkResult
          /\ Len(parser.program) >= 1
          /\ parser.program[1] = LogStatement(<< >>)
    /\ LogListKeepsArguments

----------------------------------------------------------------------------
(* A primary followed by an operator, checked under Spec *)

PrimaryExpr(t) ==
    CASE t = <<"1">> -> NumberLiteral(1)
      [] t = <<"x">> -> IdentifierExpr(<<"x">>)
      [] t = <<"(", "1", ")">> -> GroupExpression(NumberLiteral(1))

InfixExpr(left, op, right) ==
    IF op = "+" THEN BinaryExpression(left, "Plus", right)
    ELSE ComparisonExpression(left, "LessThan", right)

PrimaryFormsInfix(primary, op) ==
    (scanner.text = SrcInfix(primary, op) /\ Parsed) =>
        /\ parse_result = OkResult
        /\ Len(parser.program) >= 1
        /\ parser.program[1] =
              ExpressionStatement(
                  InfixExpr(PrimaryExpr(primary), op, NumberLiteral(2)))

\* C23: a number literal, an identifier or a parenthesised group followed by
\* a BinaryOperator or a ComparisonOperator parses to a BinaryExpression or a
\* ComparisonExpression with that primary on the left and the rest on the
\* right, for all three primaries and both operators.
C23_PrimaryThenOperatorIsInfix ==
    \A primary \in SrcPrimaries, op \in {"+", "<"} : PrimaryFormsInfix(primary, op)

----------------------------------------------------------------------------
(* The text of number tokens, checked under SpecScan *)

\* C24: the text of a Number token never holds an underscore: the scanner
\* takes the underscores of a digit run and leaves them out of the token.
C24_NumberTextHasNoUnderscore ==
    \A i \in 1..Len(scanner.tokens) :
        scanner.tokens[i].type = "Number" =>
            \A j \in 1..Len(scanner.tokens[i].v) : scanner.tokens[i].v[j] # "_"

----------------------------------------------------------------------------
(* Reassignment and the scope chain, checked under SpecScope *)

\* C25: on a scope with or without a parent, reassign_variable returns
\* exactly when get_variable of the same name on the same scope returns: it
\* fails only when the name is bound nowhere in the chain.
C25_ReassignResolvesThroughChain ==
    \A k \in 1..Len(executed) :
        executed[k].method = "reassign_variable" =>
            executed[k].ok = get_variable(executed[k].scope, executed[k].name).ok

----------------------------------------------------------------------------
(* The statement cursor, checked under Spec *)

\* The statements evaluate_program itself handed to evaluate_statement
TopLevelStatements ==
    LET top == SelectSeq(executed, LAMBDA e : e.depth = 0)
    IN  [i \in 1..Len(top) |-> top[i].stmt]

\* The k-th call and the statements of its body have all returned
Finished(k) == BodyEnd(k) <= Len(executed) \/ pc # "panic"

\* C26: when an IfStatement (condition True or False) or a BlockStatement of
\* the program has finished, the statement cursor is one further than when it
\* started, whatever its body holds; and a run that ends without a fatal
\* error has executed every statement of the program once, in program order.
C26_CompoundStatementAdvancesByOne ==
    /\ \A k \in Calls :
          ( /\ executed[k].depth = 0
            /\ executed[k].stmt.s \in {"IfStatement", "BlockStatement"}
            /\ Finished(k) ) =>
              PtrAt(BodyEnd(k)) = executed[k].ptr + 1
    /\ pc = "done" => TopLevelStatements = evaluator.program

\* C27: every pass of evaluate_program's loop that returns leaves the
\* statement cursor strictly further than it found it, so that the loop ends
\* on every program, a BlockStatement without statements and an IfStatement
\* with a True condition and an empty body included.
C27_EveryPassAdvancesCursor ==
    [][(pc = "eval" /\ pc' = "eval") => evaluator'.ptr > evaluator.ptr]_vars

\* A BlockStatement among the statements of the program or as the body of an if
HasBlock ==
    \E i \in DOMAIN parser.program :
        \/ parser.program[i].s = "BlockStatement"
        \/ /\ parser.program[i].s = "IfStatement"
           /\ parser.program[i].body.s = "BlockStatement"

\* C28: for a text whose `{` has no closing `}`, `{` as the last token
\* included, parse_all never returns Ok with a BlockStatement in the program.
C28_UnclosedBlockIsFailure ==
    scanner.text \in SrcUnclosedBlocks => ~(parse_result = OkResult /\ HasBlock)

----------------------------------------------------------------------------
(* The scanner's cursor, checked under SpecScan *)

\* C29: in every state of the scanner the cursor is at least 0 and at most
\* the length of the source text, also after a string literal without a
\* closing quote, a comment without a newline and a `-` that ends the text.
C29_CursorStaysInsideText ==
    /\ 0 <= scanner.current
    /\ scanner.current <= ByteLen(scanner.text)

----------------------------------------------------------------------------
(* What changes the bindings, checked under Spec *)

\* The bindings of every name but n are the same in the maps v and w
SameButFor(n, v, w) ==
    /\ DOMAIN v \ {n} = DOMAIN w \ {n}
    /\ \A m \in DOMAIN v \ {n} : v[m] = w[m]

\* C30: a VariableDeclaration that returns has added exactly the binding of
\* its name and a VariableReassignment that returns has kept the bound names
\* and changed at most the binding of its name, both leaving every other
\* binding as it was; a log, expression or empty statement, the condition of
\* an if and the entry into a block leave the bindings as they were; and
\* from one statement to the next no bound name is lost.
C30_OnlyDeclarationAndReassignmentChangeScope ==
    \A k \in Calls :
        /\ DOMAIN VariablesAt(k) \subseteq DOMAIN VariablesAt(k + 1)
        /\ Returned(k) =>
              CASE executed[k].stmt.s = "VariableDeclaration" ->
                      /\ executed[k].stmt.name \notin DOMAIN VariablesAt(k)
                      /\ DOMAIN VariablesAt(k + 1) =
                            DOMAIN VariablesAt(k) \cup {executed[k].stmt.name}
                      /\ VariablesAt(k + 1)[executed[k].stmt.name] =
                            ValueAt(k, executed[k].stmt.value)
                      /\ SameButFor(executed[k].stmt.name,
                                    VariablesAt(k), VariablesAt(k + 1))
                [] executed[k].stmt.s = "VariableReassignment" ->
                      /\ DOMAIN VariablesAt(k + 1) = DOMAIN VariablesAt(k)
                      /\ VariablesAt(k + 1)[executed[k].stmt.name] =
                            ValueAt(k, executed[k].stmt.value)
                      /\ SameButFor(executed[k].stmt.name,
                                    VariablesAt(k), VariablesAt(k + 1))
                [] OTHER -> VariablesAt(k + 1) = VariablesAt(k)

\* `var x = 5; var y = x + 1; x = 2;` has ended with x = 2 and y = 6
C30_Witness ==
    /\ pc = "done"
    /\ scanner.text = JoinStmts(<<1, 2, 4>>)
    /\ \E k \in Calls : executed[k].stmt.s = "VariableReassignment"
    /\ evaluator.scope.variables[<<"x">>] = NumberValue(2)
    /\ evaluator.scope.variables[<<"y">>] = NumberValue(6)

====
